---- MODULE Spec2Model ----
(***************************************************************************)
(* Profile workflow of the Web-Form application (UserForm.tsx): the        *)
(* in-memory draft, the edit/read mode, the pending avatar file, and the   *)
(* asynchronous handlers loadProfile, handleAvatarUpload and handleSubmit  *)
(* interleaved at their await points with the user's input events and     *)
(* with the answers of the identity provider, the profile store and the   *)
(* object store.                                                           *)
(*                                                                         *)
(* Texts the program treats as opaque are strings.  Texts it takes apart   *)
(* or builds are sequences: the hobbies text is a sequence of characters,  *)
(* a file name is the sequence of its dot-separated segments, a storage    *)
(* path and a public URL are sequences of their parts (the empty string is *)
(* the empty sequence).                                                    *)
(***************************************************************************)
EXTENDS Integers, Sequences, FiniteSets, TLC

\* ------------------------------------------------------------------ bounds
MaxSaves == 2
MaxEdits == 4
MaxLen == 3

\* ------------------------------------------------------------ value spaces
Users == {"U1"}
NoUser == "NoUser"

EmptyText == << >>
Null == <<"null">>
NoFile == << >>
StoredFile == <<"me", "png">>
Files == { <<"pic", "jpg">> }

NoUserMsg == "No user logged in"
UploadErrMsg == "upload failed"
UpsertErrMsg == "upsert rejected"

RequiredFields == {"first_name", "last_name", "date_of_birth", "country"}
FormFields ==
  RequiredFields \cup {"religion", "blood_group", "marital_status", "institution", "hobbies"}
ProfileFields == FormFields \cup {"id", "avatar_url"}

DefaultProfile ==
  [ id |-> "", first_name |-> "", last_name |-> "", date_of_birth |-> "",
    country |-> "", religion |-> "", blood_group |-> "", marital_status |-> "",
    institution |-> "", hobbies |-> << >>, avatar_url |-> EmptyText ]

\* ------------------------------------------------------------- object store
FileExt(file) == file[Len(file)]

FilePath(uid, file) == <<uid, "avatar", FileExt(file)>>

GetPublicUrl(path) == <<"public", "avatars">> \o path

\* ------------------------------------------------------------ profile store
RowsOf(rows, uid) == {r \in rows : r.id = uid}

\* Variant: a plain insert, which keeps the row already stored under the key.
InsertOnly(rows, row) == rows \cup {row}

Upsert(rows, row) == (rows \ RowsOf(rows, row.id)) \cup {row}

StoredRow ==
  [ id |-> "U1", first_name |-> "Ada", last_name |-> "Lovelace",
    date_of_birth |-> "1815-12-10", country |-> "UK", religion |-> "",
    blood_group |-> "", marital_status |-> "", institution |-> "A",
    hobbies |-> << >>, avatar_url |-> GetPublicUrl(FilePath("U1", StoredFile)) ]

\* ------------------------------------------------------ hobbies text (split)
Comma == ","
WhiteSpace == {" "}
Alphabet == {"a", Comma, " "}

RECURSIVE Split(_)
Split(text) ==
  IF text = << >> THEN << << >> >>
  ELSE LET rest == Split(Tail(text))
       IN IF Head(text) = Comma
          THEN << << >> >> \o rest
          ELSE << <<Head(text)>> \o rest[1] >> \o Tail(rest)

RECURSIVE TrimStart(_)
TrimStart(s) ==
  IF s # << >> /\ Head(s) \in WhiteSpace THEN TrimStart(Tail(s)) ELSE s

RECURSIVE TrimEnd(_)
TrimEnd(s) ==
  IF s # << >> /\ s[Len(s)] \in WhiteSpace
  THEN TrimEnd(SubSeq(s, 1, Len(s) - 1)) ELSE s

\* Variant: trimStart() in place of trim().
TrimLeadingOnly(s) == TrimStart(s)

Trim(s) == TrimEnd(TrimStart(s))

SplitHobbies(value) == [i \in 1..Len(Split(value)) |-> Trim(Split(value)[i])]

\* -------------------------------------------------------------------- state
VARIABLES
  profile,      \* useState<UserProfile>: the draft
  isEditing,    \* useState(true): edit mode
  error,        \* useState(''): the message shown in the edit view
  avatarFile,   \* useState<File | null>: the pending avatar file
  saves,        \* the handleSubmit invocations, each at one of its awaits
  loads,        \* the loadProfile invocations (0: on mount, s: after save s)
  table,        \* the rows of the profiles table
  objects,      \* the objects of the avatars bucket, as <<public URL, file>>
  lastUpsert,   \* the row of the upsert the store accepted last, if any
  nEdits,       \* number of field changes made so far
  logged,       \* whether console.error has been called
  lastChange,   \* the change event handled last and the draft it found
                \* (recorded in the Update Field specification only)
  viewProfile   \* the ViewProfile component: its loadProfile invocation and
                \* its useState<UserProfile | null>, while its route is shown

vars ==
  <<profile, isEditing, error, avatarFile, saves, loads, table, objects, lastUpsert, nEdits,
    logged, lastChange, viewProfile>>

SaveIds == 1..MaxSaves
LoadIds == 0..MaxSaves

\* A handleSubmit invocation: where it is (pc), its locals (user, the profile
\* and avatarFile of the render it was created in, the upload's path and
\* status, the upsert's argument), the calls it has made, and how it ended.
IdleSave ==
  [ pc |-> "idle", user |-> NoUser, profile |-> DefaultProfile, file |-> NoFile,
    upload |-> "none", path |-> << >>, payload |-> DefaultProfile,
    outcome |-> "none", calls |-> << >> ]

\* An invocation that has returned: its locals are gone.
Returned(outcome) == [IdleSave EXCEPT !.pc = "done", !.outcome = outcome]

\* A loadProfile invocation: where it is, its user, and for the load a save
\* starts, the draft that save had saved.
IdleLoad == [ pc |-> "idle", user |-> NoUser, savedDraft |-> DefaultProfile ]

LoadReturned == [IdleLoad EXCEPT !.pc = "done"]

\* Inputs of the form in the workflow specification.
TextInputs ==
  { <<"first_name", "Ada">>, <<"last_name", "Lovelace">>,
    <<"date_of_birth", "1815-12-10">>, <<"country", "UK">>,
    <<"institution", "B">> }

\* The ViewProfile component while the route "/" shows the form: not mounted.
\* Its profile state is << >> for null and <<row>> for a row.
ViewUnmounted == [ pc |-> "unmounted", user |-> NoUser, profile |-> << >> ]

NoChange == [ name |-> "", value |-> "", text |-> EmptyText, before |-> DefaultProfile ]

Init ==
  /\ profile = DefaultProfile
  /\ isEditing = TRUE
  /\ error = ""
  /\ avatarFile = NoFile
  /\ saves = [s \in SaveIds |-> IdleSave]
  /\ loads = [l \in LoadIds |-> IF l = 0 THEN [IdleLoad EXCEPT !.pc = "getUser"] ELSE IdleLoad]
  /\ table \in {{}, {StoredRow}}
  /\ objects = {<<r.avatar_url, StoredFile>> : r \in table}
  /\ lastUpsert = << >>
  /\ nEdits = 0
  /\ logged = FALSE
  /\ lastChange = NoChange
  /\ viewProfile = ViewUnmounted

\* -------------------------------------------------------------- loadProfile
\* getUser answered with no user: return.
LoadNoUser(l) ==
  /\ loads[l].pc = "getUser"
  /\ loads' = [loads EXCEPT ![l] = LoadReturned]
  /\ UNCHANGED <<profile, isEditing, error, avatarFile, saves, table, objects, lastUpsert, nEdits, logged, lastChange, viewProfile>>

\* getUser answered with a user: the fetch of that user's row is sent.
LoadGetUser(l, u) ==
  /\ loads[l].pc = "getUser"
  /\ loads' = [loads EXCEPT ![l].pc = "fetch", ![l].user = u]
  /\ UNCHANGED <<profile, isEditing, error, avatarFile, saves, table, objects, lastUpsert, nEdits, logged, lastChange, viewProfile>>

\* Variant: setIsEditing(false) is reached on the error path too.
LoadFetchErrorLeavesEdit(l, failed) ==
  /\ loads[l].pc = "fetch"
  /\ failed \/ Cardinality(RowsOf(table, loads[l].user)) # 1
  /\ loads' = [loads EXCEPT ![l] = LoadReturned]
  /\ logged' = TRUE
  /\ isEditing' = FALSE
  /\ UNCHANGED <<profile, error, avatarFile, saves, table, objects, lastUpsert, nEdits, lastChange, viewProfile>>

\* .single() answers with an error: the request failed, or the rows matched
\* are not exactly one (no row yet).  console.error, return.
LoadFetchError(l, failed) ==
  /\ loads[l].pc = "fetch"
  /\ failed \/ Cardinality(RowsOf(table, loads[l].user)) # 1
  /\ loads' = [loads EXCEPT ![l] = LoadReturned]
  /\ logged' = TRUE
  /\ UNCHANGED <<profile, isEditing, error, avatarFile, saves, table, objects, lastUpsert, nEdits, lastChange, viewProfile>>

\* Variant: the row is put in the draft but setIsEditing(false) is left out.
LoadFetchDataKeepsMode(l) ==
  /\ loads[l].pc = "fetch"
  /\ \E data \in RowsOf(table, loads[l].user) :
       /\ RowsOf(table, loads[l].user) = {data}
       /\ profile' = data
  /\ loads' = [loads EXCEPT ![l] = LoadReturned]
  /\ UNCHANGED <<isEditing, error, avatarFile, saves, table, objects, lastUpsert, nEdits, logged, lastChange, viewProfile>>

\* .single() answers with the row: setProfile(data); setIsEditing(false).
LoadFetchData(l) ==
  /\ loads[l].pc = "fetch"
  /\ \E data \in RowsOf(table, loads[l].user) :
       /\ RowsOf(table, loads[l].user) = {data}
       /\ profile' = data
  /\ isEditing' = FALSE
  /\ loads' = [loads EXCEPT ![l] = LoadReturned]
  /\ UNCHANGED <<error, avatarFile, saves, table, objects, lastUpsert, nEdits, logged, lastChange, viewProfile>>

\* ------------------------------------------------------------ input events
\* The Edit button, rendered when not editing: setIsEditing(true).
BeginEdit ==
  /\ ~isEditing
  /\ isEditing' = TRUE
  /\ UNCHANGED <<profile, error, avatarFile, saves, loads, table, objects, lastUpsert, nEdits, logged, lastChange, viewProfile>>

ChangedValue(name, value) == IF name = "hobbies" THEN SplitHobbies(value) ELSE value

\* hobbies.join(', ')
RECURSIVE Join(_)
Join(hobbies) ==
  IF hobbies = << >> THEN EmptyText
  ELSE IF Len(hobbies) = 1 THEN hobbies[1]
  ELSE hobbies[1] \o <<Comma, " ">> \o Join(Tail(hobbies))

\* The text an input of the form displays (its value attribute).
InputValue(name) == IF name = "hobbies" THEN Join(profile.hobbies) ELSE profile[name]

\* onChange of an input of the form (disabled when not editing), fired when
\* the user changes the text the input displays.
handleChange(name, value) ==
  /\ isEditing
  /\ value # InputValue(name)
  /\ nEdits < MaxEdits
  /\ profile' = [profile EXCEPT ![name] = ChangedValue(name, value)]
  /\ nEdits' = nEdits + 1
  /\ UNCHANGED <<isEditing, error, avatarFile, saves, loads, table, objects, lastUpsert, logged, viewProfile>>

\* onChange of the file input (rendered when editing) with a file chosen.
handleFileChange(file) ==
  /\ isEditing
  /\ avatarFile' = file
  /\ UNCHANGED <<profile, isEditing, error, saves, loads, table, objects, lastUpsert, nEdits, logged, lastChange, viewProfile>>

\* --------------------------------------------------------------- handleSubmit
\* Variant: { id: user.id, ...profile, avatar_url: avatarUrl }, where the
\* draft's id overrides the resolved one.
UpsertPayloadDraftId(draft, uid, avatarUrl) == [draft EXCEPT !.avatar_url = avatarUrl]

\* The argument of upsert: { ...profile, id: user.id, avatar_url: avatarUrl }.
UpsertPayload(draft, uid, avatarUrl) ==
  [draft EXCEPT !.id = uid, !.avatar_url = avatarUrl]

\* The record of a save that sends its upsert with the given avatar URL.
SendUpsert(sv, avatarUrl) ==
  [sv EXCEPT !.pc = "upsert",
             !.payload = UpsertPayload(sv.profile, sv.user, avatarUrl),
             !.calls = Append(sv.calls, "upsert")]

RequiredFilled == \A f \in RequiredFields : profile[f] # ""

\* The form is submitted (Save button rendered when editing, required inputs
\* filled): setError(''), then getUser is awaited.
handleSubmit(s) ==
  /\ isEditing
  /\ RequiredFilled
  /\ saves[s].pc = "idle"
  /\ \A t \in SaveIds : t < s => saves[t].pc # "idle"
  /\ error' = ""
  /\ saves' = [saves EXCEPT ![s] =
                 [IdleSave EXCEPT !.pc = "getUser", !.profile = profile, !.file = avatarFile,
                                  !.calls = <<"getUser">>]]
  /\ UNCHANGED <<profile, isEditing, avatarFile, loads, table, objects, lastUpsert, nEdits, logged, lastChange, viewProfile>>

\* Variant: the missing user ends the save silently, as in loadProfile.
SubmitNoUserSilent(s) ==
  /\ saves[s].pc = "getUser"
  /\ saves' = [saves EXCEPT ![s] = Returned("NotAuthenticated")]
  /\ UNCHANGED <<profile, isEditing, error, avatarFile, loads, table, objects, lastUpsert, nEdits, logged, lastChange, viewProfile>>

\* getUser answered with no user: throw new Error('No user logged in'),
\* caught: setError(err.message).
SubmitNoUser(s) ==
  /\ saves[s].pc = "getUser"
  /\ saves' = [saves EXCEPT ![s] = Returned("NotAuthenticated")]
  /\ error' = NoUserMsg
  /\ UNCHANGED <<profile, isEditing, avatarFile, loads, table, objects, lastUpsert, nEdits, logged, lastChange, viewProfile>>

\* getUser answered with a user: avatarUrl = profile.avatar_url; with a
\* pending file handleAvatarUpload is entered (its getUser is awaited),
\* without one the upsert is sent.
SubmitGetUser(s, u) ==
  /\ saves[s].pc = "getUser"
  /\ LET sv == [saves[s] EXCEPT !.user = u]
     IN saves' = [saves EXCEPT ![s] =
          IF sv.file # NoFile
          THEN [sv EXCEPT !.pc = "uploadGetUser", !.calls = Append(sv.calls, "getUser")]
          ELSE SendUpsert(sv, sv.profile.avatar_url)]
  /\ UNCHANGED <<profile, isEditing, error, avatarFile, loads, table, objects, lastUpsert, nEdits, logged, lastChange, viewProfile>>

\* handleAvatarUpload: getUser answered with no user: return null, which
\* handleSubmit assigns to avatarUrl and sends in the upsert.
UploadNoUser(s) ==
  /\ saves[s].pc = "uploadGetUser"
  /\ saves' = [saves EXCEPT ![s] = SendUpsert(saves[s], Null)]
  /\ UNCHANGED <<profile, isEditing, error, avatarFile, loads, table, objects, lastUpsert, nEdits, logged, lastChange, viewProfile>>

\* handleAvatarUpload: getUser answered with a user: the upload is sent.
UploadGetUser(s, u) ==
  /\ saves[s].pc = "uploadGetUser"
  /\ saves' = [saves EXCEPT ![s].pc = "upload", ![s].upload = "sent",
                            ![s].path = FilePath(u, saves[s].file),
                            ![s].calls = Append(saves[s].calls, "upload")]
  /\ UNCHANGED <<profile, isEditing, error, avatarFile, loads, table, objects, lastUpsert, nEdits, logged, lastChange, viewProfile>>

\* Variant: the upload error is not thrown and the save goes on to upsert
\* the draft's own avatar URL.
UploadErrorIgnored(s) ==
  /\ saves[s].pc = "upload"
  /\ saves' = [saves EXCEPT ![s] =
                 SendUpsert([saves[s] EXCEPT !.upload = "failed"], saves[s].profile.avatar_url)]
  /\ UNCHANGED <<profile, isEditing, error, avatarFile, loads, table, objects, lastUpsert, nEdits, logged, lastChange, viewProfile>>

\* The upload failed: throw uploadError, caught by handleSubmit:
\* setError(err.message).
UploadError(s) ==
  /\ saves[s].pc = "upload"
  /\ saves' = [saves EXCEPT ![s] = Returned("UploadFailure")]
  /\ error' = UploadErrMsg
  /\ UNCHANGED <<profile, isEditing, avatarFile, loads, table, objects, lastUpsert, nEdits, logged, lastChange, viewProfile>>

\* The upload succeeded ({ upsert: true } overwrites the object at the path):
\* return the public URL, which handleSubmit sends in the upsert.
UploadDone(s) ==
  /\ saves[s].pc = "upload"
  /\ objects' = {o \in objects : o[1] # GetPublicUrl(saves[s].path)}
                  \cup {<<GetPublicUrl(saves[s].path), saves[s].file>>}
  /\ saves' = [saves EXCEPT ![s] =
                 SendUpsert([saves[s] EXCEPT !.upload = "ok"], GetPublicUrl(saves[s].path))]
  /\ UNCHANGED <<profile, isEditing, error, avatarFile, loads, table, lastUpsert, nEdits, logged, lastChange, viewProfile>>

\* Variant: setIsEditing(false) runs before upsertError is looked at.
UpsertErrorLeavesEdit(s) ==
  /\ saves[s].pc = "upsert"
  /\ saves' = [saves EXCEPT ![s] = Returned("PersistFailure")]
  /\ error' = UpsertErrMsg
  /\ isEditing' = FALSE
  /\ UNCHANGED <<profile, avatarFile, loads, table, objects, lastUpsert, nEdits, logged, lastChange, viewProfile>>

\* The store rejected the upsert: throw upsertError, caught:
\* setError(err.message).
UpsertError(s) ==
  /\ saves[s].pc = "upsert"
  /\ saves' = [saves EXCEPT ![s] = Returned("PersistFailure")]
  /\ error' = UpsertErrMsg
  /\ UNCHANGED <<profile, isEditing, avatarFile, loads, table, objects, lastUpsert, nEdits, logged, lastChange, viewProfile>>

\* The draft a save has saved, as its caller expects to read it back: its
\* profile, with the resolved user's id, and with the uploaded file's public
\* URL if it uploaded one.
SavedDraft(sv) ==
  [sv.profile EXCEPT
     !.id = sv.user,
     !.avatar_url = IF sv.upload = "ok" THEN GetPublicUrl(sv.path) ELSE sv.profile.avatar_url]

\* The store accepted the upsert: setIsEditing(false); loadProfile() is
\* called and not awaited (its getUser is in flight when handleSubmit ends).
UpsertDone(s) ==
  /\ saves[s].pc = "upsert"
  /\ table' = Upsert(table, saves[s].payload)
  /\ lastUpsert' = <<saves[s].payload>>
  /\ saves' = [saves EXCEPT ![s] = Returned("saved")]
  /\ isEditing' = FALSE
  /\ loads' = [loads EXCEPT ![s] = [IdleLoad EXCEPT !.pc = "getUser",
                                                   !.savedDraft = SavedDraft(saves[s])]]
  /\ UNCHANGED <<profile, error, avatarFile, objects, nEdits, logged, lastChange, viewProfile>>

\* ------------------------------------------------------------ specification
Next ==
  \/ \E l \in LoadIds : LoadNoUser(l)
  \/ \E l \in LoadIds, u \in Users : LoadGetUser(l, u)
  \/ \E l \in LoadIds, failed \in BOOLEAN : LoadFetchError(l, failed)
  \/ \E l \in LoadIds : LoadFetchData(l)
  \/ BeginEdit
  \/ \E in \in TextInputs : handleChange(in[1], in[2]) /\ UNCHANGED lastChange
  \/ \E file \in Files : handleFileChange(file)
  \/ \E s \in SaveIds : handleSubmit(s)
  \/ \E s \in SaveIds : SubmitNoUser(s)
  \/ \E s \in SaveIds, u \in Users : SubmitGetUser(s, u)
  \/ \E s \in SaveIds : UploadNoUser(s)
  \/ \E s \in SaveIds, u \in Users : UploadGetUser(s, u)
  \/ \E s \in SaveIds : UploadError(s)
  \/ \E s \in SaveIds : UploadDone(s)
  \/ \E s \in SaveIds : UpsertError(s)
  \/ \E s \in SaveIds : UpsertDone(s)

Spec == Init /\ [][Next]_vars

\* ------------------------------------------- specification of Update Field
\* handleChange alone, on a form that no row was stored for, with every
\* field name of the form and every hobbies text of at most MaxLen
\* characters, and the text of the example.
ExampleText ==
  << "c", "h", "e", "s", "s", ",", " ", "r", "e", "a", "d", "i", "n", "g", ",",
     " ", " ", "h", "i", "k", "i", "n", "g", " " >>

Chess == <<"c", "h", "e", "s", "s">>
Reading == <<"r", "e", "a", "d", "i", "n", "g">>
Hiking == <<"h", "i", "k", "i", "n", "g">>

ChangeTexts == UNION {[1..k -> Alphabet] : k \in 0..MaxLen} \cup {ExampleText}

ChangeValues == {"", "x"}

InitChange == Init /\ table = {}

NextChange ==
  \/ \E name \in FormFields \ {"hobbies"}, value \in ChangeValues :
       /\ handleChange(name, value)
       /\ lastChange' = [NoChange EXCEPT !.name = name, !.value = value, !.before = profile]
  \/ \E text \in ChangeTexts :
       /\ handleChange("hobbies", text)
       /\ lastChange' = [NoChange EXCEPT !.name = "hobbies", !.text = text, !.before = profile]

SpecChange == InitChange /\ [][NextChange]_vars

\* ------------------------------------------------ specification of the views
\* The two routes of App: "/" shows UserForm, "/view-profile" shows
\* ViewProfile; each component is mounted, with fresh state and its load
\* started, when its route is entered by the link the other one renders.
\* No save is submitted here, so the links are rendered only when no
\* invocation of the component being left is in flight.
UserFormMounted == viewProfile.pc = "unmounted"

\* What UserForm renders: the form with its inputs, in every state.
UserFormRender == [ loading |-> FALSE, fields |-> FormFields ]

\* What ViewProfile renders: the spinner while its profile is null, the
\* fields of the profile otherwise.
ViewProfileRender ==
  IF viewProfile.profile = << >>
  THEN [ loading |-> TRUE, fields |-> {} ]
  ELSE [ loading |-> FALSE, fields |-> FormFields ]

\* The View Profile link of the form, rendered when not editing: ViewProfile
\* is mounted and its effect calls loadProfile.
OpenViewProfile ==
  /\ UserFormMounted
  /\ ~isEditing
  /\ viewProfile' = [ViewUnmounted EXCEPT !.pc = "getUser"]
  /\ UNCHANGED <<profile, isEditing, error, avatarFile, saves, loads, table, objects, lastUpsert, nEdits, logged, lastChange>>

\* ViewProfile.loadProfile: getUser answered with no user: return.
ViewLoadNoUser ==
  /\ viewProfile.pc = "getUser"
  /\ viewProfile' = [viewProfile EXCEPT !.pc = "done"]
  /\ UNCHANGED <<profile, isEditing, error, avatarFile, saves, loads, table, objects, lastUpsert, nEdits, logged, lastChange>>

\* ViewProfile.loadProfile: getUser answered with a user: the fetch is sent.
ViewLoadGetUser(u) ==
  /\ viewProfile.pc = "getUser"
  /\ viewProfile' = [viewProfile EXCEPT !.pc = "fetch", !.user = u]
  /\ UNCHANGED <<profile, isEditing, error, avatarFile, saves, loads, table, objects, lastUpsert, nEdits, logged, lastChange>>

\* ViewProfile.loadProfile: .single() answers with an error: console.error,
\* return.
ViewFetchError(failed) ==
  /\ viewProfile.pc = "fetch"
  /\ failed \/ Cardinality(RowsOf(table, viewProfile.user)) # 1
  /\ viewProfile' = [viewProfile EXCEPT !.pc = "done"]
  /\ logged' = TRUE
  /\ UNCHANGED <<profile, isEditing, error, avatarFile, saves, loads, table, objects, lastUpsert, nEdits, lastChange>>

\* ViewProfile.loadProfile: .single() answers with the row: setProfile(data).
ViewFetchData ==
  /\ viewProfile.pc = "fetch"
  /\ \E data \in RowsOf(table, viewProfile.user) :
       /\ RowsOf(table, viewProfile.user) = {data}
       /\ viewProfile' = [viewProfile EXCEPT !.pc = "done", !.profile = <<data>>]
  /\ UNCHANGED <<profile, isEditing, error, avatarFile, saves, loads, table, objects, lastUpsert, nEdits, logged, lastChange>>

\* The Back to Edit link of ViewProfile, rendered with the profile: UserForm
\* is mounted with its initial state and its effect calls loadProfile.
BackToEdit ==
  /\ viewProfile.profile # << >>
  /\ viewProfile' = ViewUnmounted
  /\ profile' = DefaultProfile
  /\ isEditing' = TRUE
  /\ error' = ""
  /\ avatarFile' = NoFile
  /\ loads' = [loads EXCEPT ![0] = [IdleLoad EXCEPT !.pc = "getUser"]]
  /\ UNCHANGED <<saves, table, objects, lastUpsert, nEdits, logged, lastChange>>

NextViews ==
  \/ UserFormMounted /\ LoadNoUser(0)
  \/ UserFormMounted /\ \E u \in Users : LoadGetUser(0, u)
  \/ UserFormMounted /\ \E failed \in BOOLEAN : LoadFetchError(0, failed)
  \/ UserFormMounted /\ LoadFetchData(0)
  \/ UserFormMounted /\ BeginEdit
  \/ UserFormMounted /\ \E in \in TextInputs : handleChange(in[1], in[2]) /\ UNCHANGED lastChange
  \/ OpenViewProfile
  \/ ViewLoadNoUser
  \/ \E u \in Users : ViewLoadGetUser(u)
  \/ \E failed \in BOOLEAN : ViewFetchError(failed)
  \/ ViewFetchData
  \/ BackToEdit

SpecViews == Init /\ [][NextViews]_vars

\* ------------------------------------------------------------------ helpers
Range(seq) == {seq[i] : i \in DOMAIN seq}

HasCall(sv, call) == call \in Range(sv.calls)

\* Step in which save s leaves the await named pc.
Leaves(s, pc) == saves[s].pc = pc /\ saves'[s].pc # pc

\* Step in which the store accepts the upsert of save s.
Accepts(s) == saves[s].pc = "upsert" /\ saves'[s].outcome = "saved"

\* Step in which save s ends in its catch block.
SaveFails(s) ==
  saves[s].pc \notin {"idle", "done"} /\ saves'[s].pc = "done" /\ saves'[s].outcome # "saved"

\* Step in which load l returns.
LoadEnds(l) == loads[l].pc # "done" /\ loads'[l].pc = "done"

\* -------------------------------------------------------------------- claims
\* C1: when the getUser at the start of a save resolves no user, the save
\* ends there with the message 'No user logged in' set as the error shown,
\* and from its start to its end it has issued no call but that getUser (no
\* upload, no upsert, no fetch), leaving the table, the bucket and the loads
\* as they were.
C1_NotAuthenticated ==
  [][\A s \in SaveIds :
       (Leaves(s, "getUser") /\ saves'[s].user = NoUser) =>
         /\ saves'[s] = Returned("NotAuthenticated")
         /\ error' = NoUserMsg
         /\ saves[s].calls = <<"getUser">>
         /\ UNCHANGED <<table, objects, loads, lastUpsert>>]_vars

C1_Witness ==
  \E s \in SaveIds : saves[s] = Returned("NotAuthenticated") /\ error = NoUserMsg

\* C2: a save with a pending file whose upload does not succeed ends there
\* as an upload failure: it has sent no upsert and sends none, and the
\* table is left alone; and no step of a save that has not sent its upsert
\* changes the table, so the stored row (and its avatar URL) is as that save
\* found it.
C2_UploadFailureNoUpsert ==
  [][\A s \in SaveIds :
       /\ (Leaves(s, "upload") /\ saves'[s].upload # "ok") =>
            /\ saves[s].file # NoFile
            /\ saves'[s] = Returned("UploadFailure")
            /\ ~HasCall(saves[s], "upsert")
            /\ UNCHANGED <<table, lastUpsert>>
       /\ (saves'[s] # saves[s] /\ ~HasCall(saves[s], "upsert")) => table' = table]_vars

C2_Witness ==
  /\ \E s \in SaveIds : saves[s] = Returned("UploadFailure")
  /\ error = UploadErrMsg
  /\ lastUpsert = << >>
  /\ table = {StoredRow}

\* C3: once a row is stored with a non-empty avatar URL, a step changes that
\* row's avatar URL only to the public URL of an upload that succeeded in the
\* save whose upsert is being accepted, made under the same owner id; it is
\* never replaced by the empty text or null, and the row is never removed.
C3_AvatarNeverCleared ==
  [][\A r \in table :
       r.avatar_url \notin {EmptyText, Null} =>
         /\ RowsOf(table', r.id) # {}
         /\ \A r2 \in RowsOf(table', r.id) :
              \/ r2.avatar_url = r.avatar_url
              \/ \E s \in SaveIds :
                   /\ Accepts(s)
                   /\ saves[s].upload = "ok"
                   /\ saves[s].path[1] = r.id
                   /\ r2.avatar_url = GetPublicUrl(saves[s].path)]_vars

\* C4: a save that started with a pending file has sent its upsert only
\* after its upload of that file completed (a failed upload sends none).
C4_UploadBeforeUpsert ==
  \A s \in SaveIds :
    (saves[s].file # NoFile /\ HasCall(saves[s], "upsert")) =>
      /\ saves[s].upload = "ok"
      /\ \E i, j \in DOMAIN saves[s].calls :
           i < j /\ saves[s].calls[i] = "upload" /\ saves[s].calls[j] = "upsert"

\* C5: when the load started by a successful save finds that user's row,
\* the draft becomes the draft that save had saved, field for field, but for
\* the owner id (the resolved user's) and the avatar URL (the public URL if
\* a file was uploaded in that save).
C5_SaveLoadRoundTrip ==
  [][\A s \in SaveIds :
       ( /\ LoadEnds(s) /\ loads[s].pc = "fetch"
         /\ ~isEditing' /\ profile' \in RowsOf(table, loads[s].user) ) =>
         profile' = loads[s].savedDraft]_vars

\* C6: once the store has accepted an upsert, however the saves overlapped,
\* the table holds exactly one row for that owner and it is the row of the
\* upsert accepted last.
C6_OneRowLastUpsertWins ==
  \A i \in DOMAIN lastUpsert :
    /\ Cardinality(RowsOf(table, lastUpsert[i].id)) = 1
    /\ RowsOf(table, lastUpsert[i].id) = {lastUpsert[i]}

\* Two saves were accepted for U1, whose row held institution "A" before
\* them, and its one row now holds "B".
C6_Witness ==
  /\ \A s \in {1, 2} : saves[s] = Returned("saved")
  /\ <<StoredRow.avatar_url, StoredFile>> \in objects
  /\ \E r \in table : RowsOf(table, "U1") = {r} /\ r.institution = "B" /\ lastUpsert = <<r>>

Untouched == nEdits = 0 /\ \A s \in SaveIds : saves[s].pc = "idle"

C9_OwnerIdFromSession ==
  /\ \A s \in SaveIds :
       HasCall(saves[s], "upsert") =>
         saves[s].user \in Users /\ saves[s].payload.id = saves[s].user
  /\ \A r \in table \cup Range(lastUpsert) : r.id \in Users

\* The store holds the row of an upsert sent for user U1 from a draft whose
\* id was empty, when no row was stored before.
C9_Witness ==
  /\ objects = {}
  /\ \E r \in table : r.id = "U1" /\ lastUpsert = <<r>>
  /\ profile.id = "" /\ loads[1].pc = "getUser"

\* The k-th smallest element of a set of numbers.
NthOf(S, k) == CHOOSE x \in S : Cardinality({y \in S : y < x}) = k - 1

\* The positions that delimit the segments of a text: its commas and its ends.
Delimiters(text) ==
  {0} \cup {i \in 1..Len(text) : text[i] = Comma} \cup {Len(text) + 1}

\* The k-th segment: the characters between the k-th and the next delimiter.
Segment(text, k) ==
  SubSeq(text, NthOf(Delimiters(text), k) + 1, NthOf(Delimiters(text), k + 1) - 1)

\* r is seg without some leading and trailing whitespace, and has none left.
IsTrimOf(seg, r) ==
  \E a, b \in 0..Len(seg) :
    /\ a + b <= Len(seg)
    /\ r = SubSeq(seg, a + 1, Len(seg) - b)
    /\ \A i \in 1..Len(seg) : (i <= a \/ i > Len(seg) - b) => seg[i] \in WhiteSpace
    /\ r # << >> => (r[1] \notin WhiteSpace /\ r[Len(r)] \notin WhiteSpace)

\* C10: after a field change on hobbies the draft's hobbies are one entry
\* per comma-delimited segment of the text, in order, empty segments kept,
\* each the segment without its surrounding whitespace ("chess, reading,
\* hiking " with its extra blanks gives chess, reading, hiking; the empty
\* text gives one empty entry); after a change on any other field that field
\* is the text given; either way every other field of the draft is as the
\* change found it.
C10_UpdateField ==
  lastChange.name # "" =>
    /\ \A f \in ProfileFields \ {lastChange.name} : profile[f] = lastChange.before[f]
    /\ lastChange.name # "hobbies" => profile[lastChange.name] = lastChange.value
    /\ lastChange.name = "hobbies" =>
         /\ Len(profile.hobbies) = Cardinality(Delimiters(lastChange.text)) - 1
         /\ \A k \in 1..Len(profile.hobbies) :
              IsTrimOf(Segment(lastChange.text, k), profile.hobbies[k])
         /\ lastChange.text = ExampleText => profile.hobbies = <<Chess, Reading, Hiking>>
         /\ lastChange.text = EmptyText => profile.hobbies = << EmptyText >>

C10_Witness ==
  /\ lastChange.name = "hobbies" /\ lastChange.text = ExampleText
  /\ profile.hobbies = <<Chess, Reading, Hiking>>
  /\ lastChange.before.hobbies = << EmptyText >>
  /\ profile.institution = "x"

\* C12: the step in which a load returns from its fetch either puts the one
\* row stored for its user in the draft and switches to read mode, whatever
\* the draft and the mode were (edits and Begin Edit made while the fetch was
\* in flight are overwritten), or, the fetch having failed, logs the error
\* and leaves the draft and the mode as they were; a load that resolves no
\* user leaves both as they were.
C12_LoadReplacesDraft ==
  [][\A l \in LoadIds :
       /\ (LoadEnds(l) /\ loads[l].pc = "getUser") => UNCHANGED <<profile, isEditing>>
       /\ (LoadEnds(l) /\ loads[l].pc = "fetch") =>
            \/ /\ RowsOf(table, loads[l].user) = {profile'}
               /\ ~isEditing'
               /\ logged' = logged
            \/ /\ UNCHANGED <<profile, isEditing>>
               /\ logged']_vars

\* The load on mount has put the stored row in the draft and switched to read
\* mode, over a field change made while its fetch was in flight.
C12_Witness ==
  /\ loads[0].pc = "done" /\ table = {StoredRow}
  /\ nEdits > 0 /\ \A s \in SaveIds : saves[s].pc = "idle"
  /\ profile = StoredRow /\ ~isEditing

\* C11: the view that is shown, while the load it started on mount has not
\* completed, renders a loading indicator and no profile field; for the form
\* (UserForm) and for the read-only view (ViewProfile).
C11_LoadingUntilLoaded ==
  /\ (UserFormMounted /\ loads[0].pc # "done") =>
       (UserFormRender.loading /\ UserFormRender.fields = {})
  /\ (~UserFormMounted /\ viewProfile.pc # "done") =>
       (ViewProfileRender.loading /\ ViewProfileRender.fields = {})

====
